---------------------------- MODULE Spec2Model ----------------------------
(***************************************************************************)
(* Market Profile day-type classification (manish70158/marketprofilepoc).  *)
(*                                                                         *)
(* Modelled: src/src/day_types.py (classify_ib_size, classify_day_type)    *)
(* and src/src/fetch_and_classify.py (fetch_day_candles' session filter,   *)
(* compute_ib_and_day_metrics, is_weekend, daterange, compute_stats' loop). *)
(*                                                                         *)
(* Numbers.  Prices are integers (ticks).  Every float the code derives    *)
(* from them is a quotient of two integers and is kept as an exact         *)
(* rational <<numerator, denominator>> in lowest terms; the float literals *)
(* of day_types.py (0.33, 1.00, 0.50, ...) are the decimals they denote.   *)
(* Times of day are minutes after midnight (09:15 = 555).                  *)
(*                                                                         *)
(* Input.  A day's candles are what the exchange feed delivers: strictly   *)
(* time-ordered OHLC bars, each with low <= open <= high and               *)
(* low <= close <= high.  The volume column is never read and is left out. *)
(***************************************************************************)
EXTENDS Integers, Sequences, FiniteSets

VARIABLES
    MARKET_OPEN,    \* fetch_and_classify.py:33, module global
    MARKET_CLOSE,   \* fetch_and_classify.py:34, module global
    IB_END,         \* fetch_and_classify.py:35, module global
    start_date,     \* compute_stats: first date of daterange (day number)
    pos,            \* compute_stats: number of (index, day) pairs iterated
    records,        \* compute_stats: the accumulating result list
    log,            \* history: what happened to each iterated pair
    data,           \* the candle rows the feed returned for the day at hand
    df,             \* fetch_day_candles' result for that day
    metrics,        \* compute_ib_and_day_metrics' result for that day
    day_type,       \* classify_day_type's label
    ib_size         \* classify_ib_size's label

config == <<MARKET_OPEN, MARKET_CLOSE, IB_END>>
loop == <<start_date, pos, records, log>>
day == <<data, df, metrics, day_type, ib_size>>
vars == <<MARKET_OPEN, MARKET_CLOSE, IB_END, start_date, pos, records, log,
          data, df, metrics, day_type, ib_size>>

---------------------------------------------------------------------------
(* Bounds of the model.                                                    *)

MaxBars == 2        \* candles per day
MaxPrice == 2       \* prices are 0..MaxPrice
NumDays == 2        \* days in the date range (365 * YEARS_BACK in the code)

---------------------------------------------------------------------------
(* Exact rationals standing for the code's floats.                         *)

Abs(x) == IF x < 0 THEN -x ELSE x

Min(a, b) == IF a <= b THEN a ELSE b

RECURSIVE Gcd(_, _)
Gcd(a, b) == IF b = 0 THEN a ELSE Gcd(b, a % b)

\* A division by zero has no finite value (ZeroDivisionError, or inf/nan).
NaR == <<0, 0>>

\* n / d as the code's `/`.
Div(n, d) ==
    IF d = 0 THEN NaR
    ELSE LET g == Gcd(Abs(n), Abs(d))
             s == IF d < 0 THEN -1 ELSE 1
         IN  <<(s * n) \div g, (s * d) \div g>>

Zero == Div(0, 1)   \* the literal 0.0
One == Div(1, 1)    \* the literal 1.0

Lt(a, b) == a[1] * b[2] < b[1] * a[2]
Le(a, b) == a[1] * b[2] <= b[1] * a[2]
Ge(a, b) == Le(b, a)
Gt(a, b) == Lt(b, a)

---------------------------------------------------------------------------
(* day_types.py                                                            *)

IB_SMALL_LT == Div(33, 100)
IB_MEDIUM_LE == Div(100, 100)

IB_RATIO_WIDE == Div(50, 100)
IB_RATIO_VERY_WIDE == Div(80, 100)
IB_RATIO_TREND_SMALL == Div(25, 100)
CLOSE_NEAR_EXTREME_LE == Div(15, 100)
CLOSE_NEAR_MID_LE == Div(30, 100)

\* Mutant: the Small band closed at 0.33.
classify_ib_size_small_closed(ib_pct) ==
    IF Le(ib_pct, Div(33, 100)) THEN "Small"
    ELSE IF Le(ib_pct, Div(100, 100)) THEN "Medium"
    ELSE "Large"

classify_ib_size(ib_pct) ==
    IF Lt(ib_pct, IB_SMALL_LT) THEN "Small"
    ELSE IF Le(ib_pct, IB_MEDIUM_LE) THEN "Medium"
    ELSE "Large"

Xor(a, b) == a # b

\* Mutant: the Normal test (>= 0.50) ahead of the Non-trend test (>= 0.80).
width_rules_normal_first(m) ==
    LET ib_ratio == m.ib_ratio
        re_up == m.re_up
        re_down == m.re_down
        close_near_extreme == Le(m.close_dist_from_extreme, CLOSE_NEAR_EXTREME_LE)
    IN  IF Ge(ib_ratio, IB_RATIO_WIDE) /\ ~re_up /\ ~re_down
            THEN "Normal Day"
        ELSE IF Ge(ib_ratio, IB_RATIO_VERY_WIDE) /\ ~re_up /\ ~re_down
            THEN "Non-trend Day"
        ELSE IF Ge(ib_ratio, IB_RATIO_WIDE) /\ Xor(re_up, re_down)
            THEN "Normal Variation Day"
        ELSE IF Le(ib_ratio, IB_RATIO_TREND_SMALL) /\ Xor(re_up, re_down)
                /\ close_near_extreme
            THEN "Trend Day"
        ELSE IF re_up /\ re_down
            THEN "Neutral Center Day"
        ELSE IF Xor(re_up, re_down)
            THEN "Normal Variation Day"
        ELSE "Non-trend Day"

\* The rules of classify_day_type from its third `if` on (lines 61-83).
width_rules(m) ==
    LET ib_ratio == m.ib_ratio
        re_up == m.re_up
        re_down == m.re_down
        close_near_extreme == Le(m.close_dist_from_extreme, CLOSE_NEAR_EXTREME_LE)
    IN  IF Ge(ib_ratio, IB_RATIO_VERY_WIDE) /\ ~re_up /\ ~re_down
            THEN "Non-trend Day"
        ELSE IF Ge(ib_ratio, IB_RATIO_WIDE) /\ ~re_up /\ ~re_down
            THEN "Normal Day"
        ELSE IF Ge(ib_ratio, IB_RATIO_WIDE) /\ Xor(re_up, re_down)
            THEN "Normal Variation Day"
        ELSE IF Le(ib_ratio, IB_RATIO_TREND_SMALL) /\ Xor(re_up, re_down)
                /\ close_near_extreme
            THEN "Trend Day"
        ELSE IF re_up /\ re_down
            THEN "Neutral Center Day"
        ELSE IF Xor(re_up, re_down)
            THEN "Normal Variation Day"
        ELSE "Non-trend Day"

\* Mutant: the Neutral Extreme test ahead of the Neutral Center test.
classify_day_type_extreme_first(m) ==
    IF m.re_up /\ m.re_down
          /\ Le(m.close_dist_from_extreme, CLOSE_NEAR_EXTREME_LE)
        THEN "Neutral Extreme Day"
    ELSE IF m.re_up /\ m.re_down /\ Le(m.close_pos_mid, CLOSE_NEAR_MID_LE)
        THEN "Neutral Center Day"
    ELSE width_rules(m)

\* Mutant: a very wide Initial Balance decides before the extensions are
\* looked at.
classify_day_type_width_first(m) ==
    IF Ge(m.ib_ratio, IB_RATIO_VERY_WIDE) THEN "Non-trend Day"
    ELSE IF m.re_up /\ m.re_down /\ Le(m.close_pos_mid, CLOSE_NEAR_MID_LE)
        THEN "Neutral Center Day"
    ELSE IF m.re_up /\ m.re_down
            /\ Le(m.close_dist_from_extreme, CLOSE_NEAR_EXTREME_LE)
        THEN "Neutral Extreme Day"
    ELSE width_rules(m)

\* Mutant: the Trend test with the wide-IB bound 0.50 in place of 0.25.
classify_day_type_trend_below_wide(m) ==
    IF m.re_up /\ m.re_down /\ Le(m.close_pos_mid, CLOSE_NEAR_MID_LE)
        THEN "Neutral Center Day"
    ELSE IF m.re_up /\ m.re_down
            /\ Le(m.close_dist_from_extreme, CLOSE_NEAR_EXTREME_LE)
        THEN "Neutral Extreme Day"
    ELSE IF Lt(m.ib_ratio, IB_RATIO_WIDE) /\ Xor(m.re_up, m.re_down)
            /\ Le(m.close_dist_from_extreme, CLOSE_NEAR_EXTREME_LE)
        THEN "Trend Day"
    ELSE width_rules(m)

classify_day_type(m) ==
    LET re_up == m.re_up
        re_down == m.re_down
        close_pos_mid == m.close_pos_mid
        close_near_extreme == Le(m.close_dist_from_extreme, CLOSE_NEAR_EXTREME_LE)
    IN  IF re_up /\ re_down /\ Le(close_pos_mid, CLOSE_NEAR_MID_LE)
            THEN "Neutral Center Day"
        ELSE IF re_up /\ re_down /\ close_near_extreme
            THEN "Neutral Extreme Day"
        ELSE width_rules(m)

---------------------------------------------------------------------------
(* fetch_and_classify.py: the candles of one day                           *)

None == [is_none |-> TRUE]      \* Python's None
Unset == [unset |-> TRUE]       \* a local holding metrics, not assigned yet
NoFrame == <<Unset>>            \* a local holding candles, not assigned yet
NoLabel == "unset"              \* a local holding a label, not assigned yet

\* 09:00 before the open, 09:15 the open, 10:15 the Initial Balance cutoff,
\* 15:30 the close, 15:45 after the close.
TimesOfDay == {540, 555, 615, 930, 945}

Prices == 0..MaxPrice

\* The open, high, low, close of one candle.
OHLC ==
    {q \in Prices \X Prices \X Prices \X Prices :
        q[3] <= q[1] /\ q[1] <= q[2] /\ q[3] <= q[4] /\ q[4] <= q[2]}

Candle(t, o, h, l, c) ==
    [datetime |-> t, open |-> o, high |-> h, low |-> l, close |-> c]

RECURSIVE Ascending(_)
Ascending(T) ==
    IF T = {} THEN <<>>
    ELSE LET t == CHOOSE x \in T : \A y \in T : x <= y
         IN  <<t>> \o Ascending(T \ {t})

\* The times of a day of at most MaxBars candles: in order, none twice.
DayTimes ==
    {Ascending(T) : T \in {U \in SUBSET TimesOfDay : Cardinality(U) <= MaxBars}}

\* The day with candle q[i] at time ts[i].
DayOf(ts, q) ==
    [i \in 1..Len(ts) |-> Candle(ts[i], q[i][1], q[i][2], q[i][3], q[i][4])]

\* Mutant: the response is returned as it came, no session mask applied.
fetch_day_candles_unfiltered(rows) == rows

\* lines 82-83: the session mask of fetch_day_candles
in_session(t) == t >= MARKET_OPEN /\ t <= MARKET_CLOSE

\* lines 77-84.  An empty or failed response gives the empty frame (line 78), rows are
\* otherwise kept when their time of day is inside the session.
fetch_day_candles(rows) ==
    IF rows = <<>> THEN <<>>
    ELSE SelectSeq(rows, LAMBDA b : in_session(b.datetime))

\* Mutant: the Initial Balance window open at the cutoff.
ib_mask_before_cutoff(t) == t >= MARKET_OPEN /\ t < IB_END

\* line 91
ib_mask(t) == t >= MARKET_OPEN /\ t <= IB_END

MaxOf(S) == CHOOSE x \in S : \A y \in S : y <= x
MinOf(S) == CHOOSE x \in S : \A y \in S : x <= y

\* lines 104-108
open_915_of(frame) ==
    LET open_915_row == SelectSeq(frame, LAMBDA b : b.datetime = MARKET_OPEN)
    IN  IF open_915_row = <<>> THEN frame[1].open ELSE open_915_row[1].open

\* line 115: (ib_range / open_915) * 100 if open_915 else 0.0
ib_pct_of(ib_range, open_915) ==
    IF open_915 # 0 THEN Div(ib_range * 100, open_915) ELSE Zero

\* Mutant: the operands of the ratio exchanged.
ib_ratio_of_exchanged(ib_range, day_range) ==
    IF day_range # 0 THEN Div(day_range, ib_range) ELSE Zero

\* line 116
ib_ratio_of(ib_range, day_range) ==
    IF day_range # 0 THEN Div(ib_range, day_range) ELSE Zero

\* Mutant: mid taken as day_high + day_low, the halving left out.
close_pos_mid_of_unhalved_mid(close, day_high, day_low, day_range) ==
    IF day_range # 0
    THEN Div(Abs(close - (day_high + day_low)), day_range)
    ELSE Zero

\* lines 118-119: mid = (day_high + day_low) / 2.0, so
\* abs(close - mid) / day_range = |2 close - (day_high + day_low)| / (2 day_range)
close_pos_mid_of(close, day_high, day_low, day_range) ==
    IF day_range # 0
    THEN Div(Abs(2 * close - (day_high + day_low)), 2 * day_range)
    ELSE Zero

\* Mutant: the flat-day fallback 0.0, as for the other ratios.
close_dist_from_extreme_of_zero_fallback(close, day_high, day_low, day_range) ==
    IF day_range # 0
    THEN Div(Min(Abs(close - day_low), Abs(close - day_high)), day_range)
    ELSE Zero

\* line 120
close_dist_from_extreme_of(close, day_high, day_low, day_range) ==
    IF day_range # 0
    THEN Div(Min(Abs(close - day_low), Abs(close - day_high)), day_range)
    ELSE One

\* Mutant: an extension counted when the day's extreme reaches the Initial
\* Balance extreme (>= and <= at lines 112-113).
compute_ib_and_day_metrics_touching_extends(frame) ==
    IF frame = <<>> THEN None
    ELSE LET ib_bars == SelectSeq(frame, LAMBDA b : ib_mask(b.datetime))
         IN  IF ib_bars = <<>> THEN None
             ELSE LET ib_high == MaxOf({ib_bars[i].high : i \in DOMAIN ib_bars})
                      ib_low == MinOf({ib_bars[i].low : i \in DOMAIN ib_bars})
                      ib_range == ib_high - ib_low
                      day_high == MaxOf({frame[i].high : i \in DOMAIN frame})
                      day_low == MinOf({frame[i].low : i \in DOMAIN frame})
                      day_range == day_high - day_low
                      open_915 == open_915_of(frame)
                      close == frame[Len(frame)].close
                  IN  [ib_high |-> ib_high, ib_low |-> ib_low, ib_range |-> ib_range,
                       day_high |-> day_high, day_low |-> day_low,
                       day_range |-> day_range,
                       open_915 |-> open_915, close |-> close,
                       re_up |-> day_high >= ib_high, re_down |-> day_low <= ib_low,
                       ib_pct |-> ib_pct_of(ib_range, open_915),
                       ib_ratio |-> ib_ratio_of(ib_range, day_range),
                       close_pos_mid |->
                           close_pos_mid_of(close, day_high, day_low, day_range),
                       close_dist_from_extreme |->
                           close_dist_from_extreme_of(close, day_high, day_low,
                                                      day_range)]

compute_ib_and_day_metrics(frame) ==
    IF frame = <<>> THEN None
    ELSE LET ib_bars == SelectSeq(frame, LAMBDA b : ib_mask(b.datetime))
         IN  IF ib_bars = <<>> THEN None
             ELSE LET ib_high == MaxOf({ib_bars[i].high : i \in DOMAIN ib_bars})
                      ib_low == MinOf({ib_bars[i].low : i \in DOMAIN ib_bars})
                      ib_range == ib_high - ib_low
                      day_high == MaxOf({frame[i].high : i \in DOMAIN frame})
                      day_low == MinOf({frame[i].low : i \in DOMAIN frame})
                      day_range == day_high - day_low
                      open_915 == open_915_of(frame)
                      close == frame[Len(frame)].close
                  IN  [ib_high |-> ib_high, ib_low |-> ib_low, ib_range |-> ib_range,
                       day_high |-> day_high, day_low |-> day_low,
                       day_range |-> day_range,
                       open_915 |-> open_915, close |-> close,
                       re_up |-> day_high > ib_high, re_down |-> day_low < ib_low,
                       ib_pct |-> ib_pct_of(ib_range, open_915),
                       ib_ratio |-> ib_ratio_of(ib_range, day_range),
                       close_pos_mid |->
                           close_pos_mid_of(close, day_high, day_low, day_range),
                       close_dist_from_extreme |->
                           close_dist_from_extreme_of(close, day_high, day_low,
                                                      day_range)]

---------------------------------------------------------------------------
(* fetch_and_classify.py: compute_stats                                    *)

INDICES == <<"NIFTY_50", "NIFTY_BANK">>

\* Mutant: only Sunday counts as the weekend.
is_weekend_sunday_only(d) == d % 7 > 5

\* Dates are day numbers, day 0 a Monday: date.weekday() is d % 7.
is_weekend(d) == d % 7 >= 5

\* daterange(start_date, end_date), end_date = start_date + NumDays - 1
daterange(start) == [n \in 1..NumDays |-> start + (n - 1)]

\* The (index, day) pairs in the order the two nested loops visit them.
NumPairs == Len(INDICES) * NumDays
index_at(p) == INDICES[((p - 1) \div NumDays) + 1]
date_at(p) == daterange(start_date)[((p - 1) % NumDays) + 1]

\* lines 170-178
record_of(d, index_name, m, size, type) ==
    [date |-> d, index |-> index_name, day_type |-> type, ib_size |-> size,
     ib_pct |-> m.ib_pct, ib_ratio |-> m.ib_ratio, day_range |-> m.day_range]

\* What the feed may answer for one (index, day) of the loop: nothing, only
\* a pre-market candle, only a candle after the Initial Balance, a flat
\* day, a one-sided breakout, a two-sided day, an inside day.
FeedAnswers ==
    { <<>>,
      <<Candle(540, 1, 1, 1, 1)>>,
      <<Candle(630, 1, 2, 1, 2)>>,
      <<Candle(555, 1, 1, 1, 1)>>,
      <<Candle(555, 1, 1, 1, 1), Candle(630, 1, 2, 1, 2)>>,
      <<Candle(555, 1, 1, 1, 1), Candle(630, 1, 2, 0, 1)>>,
      <<Candle(555, 1, 2, 0, 1), Candle(615, 1, 1, 1, 1), Candle(945, 2, 2, 2, 2)>> }

\* lines 161-168 of the loop body: fetch, extract, classify.  A `continue`
\* leaves the locals assigned later in the body as they were.
ProcessDay(rows) ==
    LET frame == fetch_day_candles(rows)
        m == compute_ib_and_day_metrics(frame)
    IN  /\ data' = rows
        /\ df' = frame
        /\ IF frame = <<>>
           THEN UNCHANGED <<metrics, day_type, ib_size>>
           ELSE /\ metrics' = m
                /\ IF m = None
                   THEN UNCHANGED <<day_type, ib_size>>
                   ELSE /\ ib_size' = classify_ib_size(m.ib_pct)
                        /\ day_type' = classify_day_type(m)

\* lines 159-160: a weekend date is skipped before anything is fetched.
Weekend ==
    /\ pos < NumPairs
    /\ is_weekend(date_at(pos + 1))
    /\ pos' = pos + 1
    /\ log' = Append(log, [index |-> index_at(pos + 1), date |-> date_at(pos + 1),
                           rows |-> NoFrame])
    /\ UNCHANGED <<config, start_date, records, day>>

\* lines 161-179: one date that is no weekend, the feed answering `rows`.
Trading(rows) ==
    /\ pos < NumPairs
    /\ ~is_weekend(date_at(pos + 1))
    /\ ProcessDay(rows)
    /\ pos' = pos + 1
    /\ records' =
          IF df' = <<>> \/ metrics' = None THEN records
          ELSE Append(records, record_of(date_at(pos + 1), index_at(pos + 1),
                                         metrics', ib_size', day_type'))
    /\ log' = Append(log, [index |-> index_at(pos + 1), date |-> date_at(pos + 1),
                           rows |-> rows])
    /\ UNCHANGED <<config, start_date>>

ReferenceConfig ==
    /\ MARKET_OPEN = 9 * 60 + 15
    /\ MARKET_CLOSE = 15 * 60 + 30
    /\ IB_END = 10 * 60 + 15

LoopStart ==
    /\ start_date \in 0..6
    /\ pos = 0
    /\ records = <<>>
    /\ log = <<>>

DayUnset ==
    /\ data = NoFrame
    /\ df = NoFrame
    /\ metrics = Unset
    /\ day_type = NoLabel
    /\ ib_size = NoLabel

Init == ReferenceConfig /\ LoopStart /\ DayUnset

Next == Weekend \/ \E rows \in FeedAnswers : Trading(rows)

Spec == Init /\ [][Next]_vars

---------------------------------------------------------------------------
(* The extractor and the classifiers as functions of one day's candles.    *)

LoopIdle ==
    /\ start_date = 0
    /\ pos = 0
    /\ records = <<>>
    /\ log = <<>>

InitExtract ==
    /\ ReferenceConfig
    /\ LoopIdle
    /\ \E ts \in DayTimes : \E q \in [1..Len(ts) -> OHLC] : data = DayOf(ts, q)
    /\ df = NoFrame
    /\ metrics = Unset
    /\ day_type = NoLabel
    /\ ib_size = NoLabel

\* fetch_day_candles, then compute_ib_and_day_metrics on its result, then
\* the two classifiers on the metrics when there are any.
Extract ==
    /\ df = NoFrame
    /\ df' = fetch_day_candles(data)
    /\ metrics' = compute_ib_and_day_metrics(df')
    /\ IF metrics' = None
       THEN UNCHANGED <<day_type, ib_size>>
       ELSE /\ ib_size' = classify_ib_size(metrics'.ib_pct)
            /\ day_type' = classify_day_type(metrics')
    /\ UNCHANGED <<config, loop, data>>

SpecExtract == InitExtract /\ [][Extract]_vars

---------------------------------------------------------------------------
(* The classifiers as functions of any metrics record.                     *)

\* Hundredths around every threshold of day_types.py, and outside [0, 1].
RatioSamples ==
    {Div(k, 100) : k \in {-5, 0, 14, 15, 16, 24, 25, 26, 29, 30, 31,
                          49, 50, 51, 79, 80, 81, 100, 105}}

PctSamples == {Div(k, 100) : k \in {-100, 0, 32, 33, 34, 100, 101}}

MetricSamples ==
    [re_up : BOOLEAN, re_down : BOOLEAN, ib_ratio : RatioSamples,
     close_pos_mid : RatioSamples, close_dist_from_extreme : RatioSamples,
     ib_pct : PctSamples]

InitClassify ==
    /\ ReferenceConfig
    /\ LoopIdle
    /\ data = NoFrame
    /\ df = NoFrame
    /\ metrics \in MetricSamples
    /\ day_type = NoLabel
    /\ ib_size = NoLabel

Classify ==
    /\ day_type = NoLabel
    /\ ib_size' = classify_ib_size(metrics.ib_pct)
    /\ day_type' = classify_day_type(metrics)
    /\ UNCHANGED <<config, loop, data, df, metrics>>

SpecClassify == InitClassify /\ [][Classify]_vars

---------------------------------------------------------------------------
(* compute_stats under any window times the three globals could be set to. *)

ConfigTimes == {555, 615, 930}

InitConfig ==
    /\ MARKET_OPEN \in ConfigTimes
    /\ MARKET_CLOSE \in ConfigTimes
    /\ IB_END \in ConfigTimes
    /\ LoopStart
    /\ DayUnset

SpecConfig == InitConfig /\ [][Next]_vars

---------------------------------------------------------------------------
(* Properties of the classifiers, under SpecClassify.                      *)

DayTypes ==
    {"Normal Day", "Normal Variation Day", "Trend Day", "Neutral Center Day",
     "Neutral Extreme Day", "Non-trend Day"}

\* The rule table of the day-type classifier, row by row.
RuleHolds(i, m) ==
    CASE i = 1 -> m.re_up /\ m.re_down /\ Le(m.close_pos_mid, Div(30, 100))
      [] i = 2 -> m.re_up /\ m.re_down /\ Le(m.close_dist_from_extreme, Div(15, 100))
      [] i = 3 -> Ge(m.ib_ratio, Div(80, 100)) /\ ~m.re_up /\ ~m.re_down
      [] i = 4 -> Ge(m.ib_ratio, Div(50, 100)) /\ ~m.re_up /\ ~m.re_down
      [] i = 5 -> Ge(m.ib_ratio, Div(50, 100)) /\ (m.re_up # m.re_down)
      [] i = 6 -> /\ Le(m.ib_ratio, Div(25, 100))
                  /\ m.re_up # m.re_down
                  /\ Le(m.close_dist_from_extreme, Div(15, 100))
      [] i = 7 -> m.re_up /\ m.re_down
      [] i = 8 -> m.re_up # m.re_down
      [] i = 9 -> TRUE

RuleLabel(i) ==
    CASE i = 1 -> "Neutral Center Day"
      [] i = 2 -> "Neutral Extreme Day"
      [] i = 3 -> "Non-trend Day"
      [] i = 4 -> "Normal Day"
      [] i = 5 -> "Normal Variation Day"
      [] i = 6 -> "Trend Day"
      [] i = 7 -> "Neutral Center Day"
      [] i = 8 -> "Normal Variation Day"
      [] i = 9 -> "Non-trend Day"

Classified == day_type # NoLabel

\* C1: classify_day_type returns, for every metrics record, the label of the
\* lowest-numbered row of the nine-row table whose condition holds, and the
\* label is one of the six day types.
C1_FirstMatchWins ==
    Classified =>
        /\ day_type \in DayTypes
        /\ \E i \in 1..9 :
              /\ RuleHolds(i, metrics)
              /\ \A j \in 1..(i - 1) : ~RuleHolds(j, metrics)
              /\ day_type = RuleLabel(i)

\* C1 witness: rows 1, 2 and 7 all hold and row 1 has given the label.
C1_Witness ==
    /\ Classified
    /\ RuleHolds(1, metrics) /\ RuleHolds(2, metrics) /\ RuleHolds(7, metrics)
    /\ day_type = "Neutral Center Day"

\* C2: classify_ib_size puts every ib_pct in exactly one band: Small iff
\* ib_pct < 0.33, Medium iff 0.33 <= ib_pct <= 1.00, Large iff ib_pct > 1.00.
C2_IbSizeBands ==
    Classified =>
        /\ ib_size \in {"Small", "Medium", "Large"}
        /\ ib_size = "Small" <=> Lt(metrics.ib_pct, Div(33, 100))
        /\ ib_size = "Medium" <=>
              Ge(metrics.ib_pct, Div(33, 100)) /\ Le(metrics.ib_pct, Div(1, 1))
        /\ ib_size = "Large" <=> Gt(metrics.ib_pct, Div(1, 1))

\* C2 witness: ib_pct = 0.33 has been classified Medium.
C2_Witness ==
    Classified /\ metrics.ib_pct = Div(33, 100) /\ ib_size = "Medium"

\* C9: with re_up and re_down both true the label is Neutral Center Day or
\* Neutral Extreme Day whatever ib_ratio is, and it is Neutral Extreme Day
\* exactly when close_pos_mid > 0.30 and close_dist_from_extreme <= 0.15.
C9_TwoSidedIsNeutral ==
    (Classified /\ metrics.re_up /\ metrics.re_down) =>
        /\ day_type \in {"Neutral Center Day", "Neutral Extreme Day"}
        /\ day_type = "Neutral Extreme Day" <=>
              /\ Gt(metrics.close_pos_mid, Div(30, 100))
              /\ Le(metrics.close_dist_from_extreme, Div(15, 100))

\* C9 witness: a two-sided day with ib_ratio = 1.0 has been labelled
\* Neutral Extreme Day.
C9_Witness ==
    /\ Classified /\ metrics.re_up /\ metrics.re_down
    /\ metrics.ib_ratio = Div(1, 1)
    /\ day_type = "Neutral Extreme Day"

\* C10: with exactly one of re_up, re_down true the label is Trend Day iff
\* ib_ratio <= 0.25 and close_dist_from_extreme <= 0.15, and Normal
\* Variation Day otherwise.
C10_OneSidedTrendOrVariation ==
    (Classified /\ metrics.re_up # metrics.re_down) =>
        IF /\ Le(metrics.ib_ratio, Div(25, 100))
           /\ Le(metrics.close_dist_from_extreme, Div(15, 100))
        THEN day_type = "Trend Day"
        ELSE day_type = "Normal Variation Day"

\* C10 witness: a one-sided day with 0.25 < ib_ratio < 0.50 and a close
\* within 0.15 of the extreme has been labelled Normal Variation Day.
C10_Witness ==
    /\ Classified /\ metrics.re_up # metrics.re_down
    /\ Gt(metrics.ib_ratio, Div(25, 100)) /\ Lt(metrics.ib_ratio, Div(50, 100))
    /\ Le(metrics.close_dist_from_extreme, Div(15, 100))
    /\ day_type = "Normal Variation Day"

---------------------------------------------------------------------------
(* Properties of the extractor, under SpecExtract.                         *)

Extracted == df # NoFrame

HasMetrics == Extracted /\ metrics # None

\* No candle of the day lies in the inclusive window [from, to].
NoneWithin(day_rows, from, to) ==
    \A i \in DOMAIN day_rows :
        ~(day_rows[i].datetime >= from /\ day_rows[i].datetime <= to)

IsRatio(r) == r \in Int \X Int /\ r[2] > 0

\* A metrics record with every key of lines 122-130 and a value for each.
CompleteMetrics(m) ==
    /\ DOMAIN m = {"ib_high", "ib_low", "ib_range", "day_high", "day_low",
                   "day_range", "open_915", "close", "re_up", "re_down",
                   "ib_pct", "ib_ratio", "close_pos_mid",
                   "close_dist_from_extreme"}
    /\ \A k \in {"ib_high", "ib_low", "ib_range", "day_high", "day_low",
                 "day_range", "open_915", "close"} : m[k] \in Int
    /\ m.re_up \in BOOLEAN /\ m.re_down \in BOOLEAN
    /\ \A k \in {"ib_pct", "ib_ratio", "close_pos_mid",
                 "close_dist_from_extreme"} : IsRatio(m[k])

\* C3: the extractor returns None exactly when the day's candles are empty
\* or none of them lies in the inclusive Initial Balance window
\* [MARKET_OPEN, IB_END], even if the day has candles elsewhere in the
\* session; for every other day it returns a complete metrics record, every
\* division having a value.
C3_NoneIffNoInitialBalance ==
    Extracted =>
        /\ metrics = None <=> (df = <<>> \/ NoneWithin(df, MARKET_OPEN, IB_END))
        /\ metrics = None <=> (data = <<>> \/ NoneWithin(data, MARKET_OPEN, IB_END))
        /\ metrics # None => CompleteMetrics(metrics)

\* C3 witness (scenario F): the frame has a candle in the session, none in
\* the Initial Balance window, and the extractor has returned None.
C3_Witness ==
    /\ Extracted /\ metrics = None
    /\ df # <<>> /\ NoneWithin(df, MARKET_OPEN, IB_END)

\* C4: metrics with day_range = 0 have ib_pct = 0, ib_ratio = 0,
\* close_pos_mid = 0 and close_dist_from_extreme = 1.
C4_FlatDayFallbacks ==
    (HasMetrics /\ metrics.day_range = 0) =>
        /\ metrics.ib_pct = Div(0, 1)
        /\ metrics.ib_ratio = Div(0, 1)
        /\ metrics.close_pos_mid = Div(0, 1)
        /\ metrics.close_dist_from_extreme = Div(1, 1)

\* C4 witness: a flat day at a non-zero price, two candles long, has been
\* extracted.
C4_Witness ==
    /\ HasMetrics /\ metrics.day_range = 0
    /\ metrics.open_915 # 0 /\ Len(df) > 1

\* C5: metrics have day_range >= ib_range >= 0, and with day_range > 0 the
\* three ratios ib_ratio, close_pos_mid and close_dist_from_extreme lie in
\* [0, 1].
C5_RangesAndRatioBounds ==
    HasMetrics =>
        /\ metrics.day_range >= metrics.ib_range
        /\ metrics.ib_range >= 0
        /\ metrics.day_range > 0 =>
              \A k \in {"ib_ratio", "close_pos_mid", "close_dist_from_extreme"} :
                  Le(Div(0, 1), metrics[k]) /\ Le(metrics[k], Div(1, 1))

\* C5 witness: a day whose range is twice its Initial Balance range.
C5_Witness ==
    /\ HasMetrics /\ metrics.day_range > 0
    /\ metrics.ib_range > 0 /\ metrics.ib_range < metrics.day_range

SessionRows(day_rows) ==
    SelectSeq(day_rows,
              LAMBDA b : b.datetime >= MARKET_OPEN /\ b.datetime <= MARKET_CLOSE)

Without(day_rows, i) ==
    SubSeq(day_rows, 1, i - 1) \o SubSeq(day_rows, i + 1, Len(day_rows))

OutsideSession(b) == b.datetime < MARKET_OPEN \/ b.datetime > MARKET_CLOSE

\* C6: candles outside [MARKET_OPEN, MARKET_CLOSE] are discarded before any
\* aggregation: day_high, day_low, day_range, open_915 and close come from
\* the candles inside the session only, and the day with or without one of
\* its pre-market or post-market candles gives the same metrics.
C6_OutOfSessionCandlesIgnored ==
    Extracted =>
        /\ \A i \in DOMAIN data :
              OutsideSession(data[i]) =>
                  compute_ib_and_day_metrics(fetch_day_candles(Without(data, i)))
                      = metrics
        /\ metrics # None =>
              LET inside == SessionRows(data)
                  at_open == SelectSeq(inside, LAMBDA b : b.datetime = MARKET_OPEN)
              IN  /\ inside # <<>>
                  /\ metrics.day_high = MaxOf({inside[i].high : i \in DOMAIN inside})
                  /\ metrics.day_low = MinOf({inside[i].low : i \in DOMAIN inside})
                  /\ metrics.day_range = metrics.day_high - metrics.day_low
                  /\ metrics.close = inside[Len(inside)].close
                  /\ metrics.open_915 =
                        IF at_open = <<>> THEN inside[1].open ELSE at_open[1].open

\* C6 witness: the day has a candle outside the session whose high is above
\* and whose close differs from what the metrics report.
C6_Witness ==
    /\ HasMetrics
    /\ \E i \in DOMAIN data :
          /\ OutsideSession(data[i])
          /\ data[i].high > metrics.day_high
          /\ i = Len(data) /\ data[i].close # metrics.close

---------------------------------------------------------------------------
(* Properties of compute_stats, under Spec and SpecConfig.                 *)

SaturdayOrSunday(d) == d % 7 \in {5, 6}

\* An iterated pair that must have a record: no weekend, the feed was
\* asked, the frame has candles, the extractor gave metrics.
Recorded(e) ==
    /\ ~SaturdayOrSunday(e.date)
    /\ e.rows # NoFrame
    /\ fetch_day_candles(e.rows) # <<>>
    /\ compute_ib_and_day_metrics(fetch_day_candles(e.rows)) # None

RecordedPairs == SelectSeq(log, Recorded)

ResultTableMatchesHistory ==
    /\ Len(log) = pos
    /\ \A p \in 1..pos : log[p].index = index_at(p) /\ log[p].date = date_at(p)
    /\ Len(records) = Len(RecordedPairs)
    /\ \A i \in DOMAIN records :
          /\ records[i].date = RecordedPairs[i].date
          /\ records[i].index = RecordedPairs[i].index
    /\ \A i, j \in DOMAIN records :
          (records[i].date = records[j].date /\ records[i].index = records[j].index)
              => i = j

AppendOnly ==
    \/ records' = records
    \/ /\ Len(records') = Len(records) + 1
       /\ SubSeq(records', 1, Len(records)) = records

\* C7: after any prefix of the (index, day) iteration the result table holds
\* exactly one record for each iterated pair that is no weekend, had candles
\* and had metrics, and none for the other pairs; no (date, index) key
\* appears twice; every step leaves the table as it was or appends one
\* record to it.
C7_ResultTableAppendOnly ==
    []ResultTableMatchesHistory /\ [][AppendOnly]_vars

\* C7 witness: the iteration is over; it met a weekend date, a date without
\* a record and a date with one.
C7_Witness ==
    /\ pos = NumPairs
    /\ records # <<>>
    /\ \E p \in 1..pos : SaturdayOrSunday(log[p].date)
    /\ \E p \in 1..pos : ~SaturdayOrSunday(log[p].date) /\ ~Recorded(log[p])

\* Window times as the claim calls invalid: the Initial Balance cutoff or
\* the session close earlier than the session open.
InvalidWindows == IB_END < MARKET_OPEN \/ MARKET_CLOSE < MARKET_OPEN

---------------------------------------------------------------------------
(* Properties of the extractor composed with the classifier, under         *)
(* SpecExtract.                                                            *)

\* C11: a day whose metrics have day_range = 0 is labelled neither Trend
\* Day, Neutral Center Day nor Neutral Extreme Day.
C11_FlatDayNeitherTrendNorNeutral ==
    (HasMetrics /\ metrics.day_range = 0) =>
        /\ day_type = classify_day_type(metrics)
        /\ day_type \notin {"Trend Day", "Neutral Center Day",
                            "Neutral Extreme Day"}

\* C11 witness: a flat day has been extracted and labelled.
C11_Witness ==
    /\ HasMetrics /\ metrics.day_range = 0
    /\ metrics.close_dist_from_extreme = Div(1, 1)
    /\ day_type = "Non-trend Day"

\* C12: metrics with re_up = re_down = false have day_high = ib_high and
\* day_low = ib_low, so ib_ratio is 1 (0 when day_range = 0) and the label is
\* Non-trend Day; no day of candles is labelled Normal Day.
C12_NoExtensionIsNonTrend ==
    HasMetrics =>
        /\ day_type = classify_day_type(metrics)
        /\ day_type # "Normal Day"
        /\ (~metrics.re_up /\ ~metrics.re_down) =>
              /\ metrics.day_high = metrics.ib_high
              /\ metrics.day_low = metrics.ib_low
              /\ metrics.ib_ratio =
                    IF metrics.day_range = 0 THEN Div(0, 1) ELSE Div(1, 1)
              /\ day_type = "Non-trend Day"

\* C12 witness: a day of two candles with a range and no extension: its
\* ib_ratio is 1.0, at or above rule 4's 0.50, and its label is Non-trend Day.
C12_Witness ==
    /\ HasMetrics /\ Len(df) > 1
    /\ ~metrics.re_up /\ ~metrics.re_down
    /\ metrics.day_range > 0
    /\ Ge(metrics.ib_ratio, Div(50, 100))
    /\ day_type = "Non-trend Day"

\* Every candle of the frame has its close inside its own range.
ClosesInsideRanges(frame) ==
    \A i \in DOMAIN frame :
        frame[i].low <= frame[i].close /\ frame[i].close <= frame[i].high

\* a + b = 1/2 for two ratios.
SumIsHalf(a, b) == 2 * (a[1] * b[2] + b[1] * a[2]) = a[2] * b[2]

\* C13: for a day whose candles each have low <= close <= high and whose
\* metrics have day_range > 0, close_pos_mid + close_dist_from_extreme = 1/2
\* (equally |2 close - (day_high + day_low)| + 2 min(close - day_low,
\* day_high - close) = day_range), each of the two is at most 1/2, and
\* close_dist_from_extreme <= 0.15 exactly when close_pos_mid >= 0.35.
C13_ClosePositionsSumToHalf ==
    (HasMetrics /\ metrics.day_range > 0 /\ ClosesInsideRanges(df)) =>
        /\ SumIsHalf(metrics.close_pos_mid, metrics.close_dist_from_extreme)
        /\ Abs(2 * metrics.close - (metrics.day_high + metrics.day_low))
              + 2 * Min(metrics.close - metrics.day_low,
                        metrics.day_high - metrics.close)
              = metrics.day_range
        /\ Le(metrics.close_pos_mid, Div(1, 2))
        /\ Le(metrics.close_dist_from_extreme, Div(1, 2))
        /\ Le(metrics.close_dist_from_extreme, Div(15, 100))
              <=> Ge(metrics.close_pos_mid, Div(35, 100))

\* C13 witness: a day with a range whose close lies strictly between the
\* day's low and high.
C13_Witness ==
    /\ HasMetrics /\ metrics.day_range > 0 /\ ClosesInsideRanges(df)
    /\ metrics.day_low < metrics.close /\ metrics.close < metrics.day_high
    /\ Gt(metrics.close_dist_from_extreme, Div(15, 100))

=============================================================================
